---- MODULE Spec2Model ----
(***************************************************************************)
(* Model of services/market_collector.py (class MarketCollector): one      *)
(* collection cycle fans out one fetch per exchange (or per exchange and    *)
(* symbol), folds the tickers by symbol and ranks the aggregates by volume. *)
(*                                                                         *)
(* Python values are modelled as follows.  A number is Num(n), None is the  *)
(* record None; a dict is a function whose DOMAIN is the set of keys that   *)
(* are present, so dict.get(k, 0) distinguishes an absent key from a key    *)
(* that is present with value None.  Insertion-ordered dicts are sequences. *)
(* A float quotient a / b is kept exact as the fraction [num, den].         *)
(***************************************************************************)
EXTENDS Integers, Sequences, FiniteSets, TLC

VARIABLES exchange_names, exchanges, pc, mode, top_pairs_limit, symbols,
          tasks_with_info, fetched, task_results, results, symbol_map,
          pulse, outcome,
          in_flight, hung, timed_out, saved, repeated

\* in_flight: the coroutine that runs is inside its fetch call; hung: that call
\* never returns; timed_out: the per-cycle timeout of the configuration has
\* elapsed; saved: the save_snapshot calls issued; repeated: an earlier call
\* of this collector has finished
vars == <<exchange_names, exchanges, pc, mode, top_pairs_limit, symbols,
          tasks_with_info, fetched, task_results, results, symbol_map,
          pulse, outcome, in_flight, hung, timed_out, saved, repeated>>

network == <<in_flight, hung, timed_out>>

(***************************************************************************)
(* Bounds of the model.                                                    *)
(***************************************************************************)
\* longest fetch_tickers() response, in tickers
MaxTickers == 2
\* largest top_pairs_limit a caller passes
MaxLimit == 2

(***************************************************************************)
(* Python values.                                                          *)
(***************************************************************************)
Num(n) == [tag |-> "num", n |-> n]
None == [tag |-> "none", n |-> 0]
IsNone(v) == v.tag = "none"

\* dict.get(key, 0)
Get(d, key) == IF key \in DOMAIN d THEN d[key] ELSE Num(0)

\* seq[:n], for n of either sign
SliceTo(seq, n) ==
    IF n >= 0
    THEN SubSeq(seq, 1, IF n < Len(seq) THEN n ELSE Len(seq))
    ELSE SubSeq(seq, 1, IF Len(seq) + n > 0 THEN Len(seq) + n ELSE 0)

Range(seq) == {seq[i] : i \in 1..Len(seq)}

(***************************************************************************)
(* The universe of trading symbols, in ascending lexicographic order, and   *)
(* the substring test '/USDT' in symbol over it.                            *)
(***************************************************************************)
SymbolsAscending == <<"BTC/USDT", "ETH/BTC", "ETH/USDT">>
ContainsUsdt(symbol) == symbol \in {"BTC/USDT", "ETH/USDT"}

(***************************************************************************)
(* What an exchange can answer.  Raw ccxt tickers: a well-formed ticker     *)
(* carries every key; malformed ones lack a key or carry None under it.     *)
(***************************************************************************)
RawTicker(symbol, last, quoteVolume, percentage, high, low) ==
    [symbol |-> symbol, last |-> last, quoteVolume |-> quoteVolume,
     percentage |-> percentage, high |-> high, low |-> low]

Without(d, key) == [k \in DOMAIN d \ {key} |-> d[k]]

BtcTickers ==
    { RawTicker("BTC/USDT", Num(10), Num(100), Num(1), Num(12), Num(9)),
      RawTicker("BTC/USDT", Num(20), Num(300), Num(3), Num(22), Num(19)),
      \* last is present and null
      RawTicker("BTC/USDT", None, Num(300), Num(3), Num(22), Num(19)),
      \* no 'symbol' key
      Without(RawTicker("BTC/USDT", Num(20), Num(100), Num(1), Num(22), Num(19)),
              "symbol"),
      \* only symbol and quoteVolume are present
      [symbol |-> "BTC/USDT", quoteVolume |-> Num(100)] }

EthTickers ==
    { RawTicker("ETH/USDT", Num(4), Num(300), Num(-1), Num(5), Num(3)),
      RawTicker("ETH/USDT", Num(6), Num(100), Num(-3), Num(7), Num(5)),
      \* percentage, high and low are present and null
      RawTicker("ETH/USDT", Num(4), Num(300), None, None, None),
      \* quoteVolume is present and null
      RawTicker("ETH/USDT", Num(4), None, Num(-1), Num(5), Num(3)),
      \* no trade in the last 24 hours
      RawTicker("ETH/USDT", Num(4), Num(0), Num(-1), Num(5), Num(3)) }

CrossTickers ==
    { RawTicker("ETH/BTC", Num(1), Num(300), Num(2), Num(2), Num(1)) }

TickersOf(key) ==
    IF key = "BTC/USDT" THEN BtcTickers
    ELSE IF key = "ETH/USDT" THEN EthTickers
    ELSE CrossTickers

\* fetch_tickers() answers: an exception, or a dict symbol -> ticker, kept as
\* the sequence of its items (keys are distinct)
ItemSeqs ==
    UNION { { s \in [1..n -> UNION { { [key |-> k, ticker |-> t] : t \in TickersOf(k) }
                                     : k \in Range(SymbolsAscending) }] :
                \A i, j \in 1..n : i # j => s[i].key # s[j].key }
            : n \in 0..MaxTickers }

TickersResponses ==
    { [raises |-> TRUE, items |-> <<>>] } \cup
    { [raises |-> FALSE, items |-> s] : s \in ItemSeqs }


\* fetch_ticker(symbol) answers: an exception, or one ticker of that symbol
TickerResponses(symbol) ==
    { [raises |-> TRUE, ticker |-> <<>>] } \cup
    { [raises |-> FALSE, ticker |-> t] : t \in TickersOf(symbol) }

(***************************************************************************)
(* get_ticker and get_top_pairs.  Both return [value, error]: the value     *)
(* handed back to the caller and whether the except branch ran (the error   *)
(* is logged, never re-raised).                                             *)
(***************************************************************************)
\* the dict literal built at lines 59-67 and 104-112 (timestamp left out)
TickerRecord(symbol, ticker) ==
    [symbol |-> symbol,
     price |-> Get(ticker, "last"),
     volume_24h |-> Get(ticker, "quoteVolume"),
     change_24h |-> Get(ticker, "percentage"),
     high_24h |-> Get(ticker, "high"),
     low_24h |-> Get(ticker, "low")]

\* value is <<>> for None and <<record>> for a dict
get_ticker(symbol, response) ==
    IF response.raises
    THEN [value |-> <<>>, error |-> TRUE]
    ELSE [value |-> <<TickerRecord(symbol, response.ticker)>>, error |-> FALSE]

\* FilterItem without the test of the quote asset
FilterItemAnyQuote(item) ==
    IF IsNone(Get(item.ticker, "quoteVolume")) THEN "raise"
    ELSE IF Get(item.ticker, "quoteVolume").n > 0 THEN "keep"
    ELSE "drop"

\* the condition of the list comprehension at line 96, for one item:
\* "raise" is the TypeError of None > 0
FilterItem(item) ==
    IF ~ContainsUsdt(item.key) THEN "drop"
    ELSE IF IsNone(Get(item.ticker, "quoteVolume")) THEN "raise"
    ELSE IF Get(item.ticker, "quoteVolume").n > 0 THEN "keep"
    ELSE "drop"

RECURSIVE SelectKept(_)
SelectKept(items) ==
    IF items = <<>> THEN <<>>
    ELSE IF FilterItem(Head(items)) = "keep"
         THEN <<Head(items).ticker>> \o SelectKept(Tail(items))
         ELSE SelectKept(Tail(items))

QuoteVolume(ticker) == Get(ticker, "quoteVolume").n

\* list.sort(key=..., reverse=True): stable, descending
RECURSIVE InsertByVolume(_, _)
InsertByVolume(sorted, ticker) ==
    IF sorted = <<>> THEN <<ticker>>
    ELSE IF QuoteVolume(Head(sorted)) >= QuoteVolume(ticker)
         THEN <<Head(sorted)>> \o InsertByVolume(Tail(sorted), ticker)
         ELSE <<ticker>> \o sorted

RECURSIVE SortByVolume(_)
SortByVolume(tickers) ==
    IF tickers = <<>> THEN <<>>
    ELSE InsertByVolume(SortByVolume(SubSeq(tickers, 1, Len(tickers) - 1)),
                        tickers[Len(tickers)])

\* the loop at lines 103-112: ticker['symbol'] raises KeyError when the key
\* is absent, and the records appended before it stay in results
RECURSIVE AppendRecords(_)
AppendRecords(top_pairs) ==
    IF top_pairs = <<>> THEN [value |-> <<>>, error |-> FALSE]
    ELSE IF "symbol" \notin DOMAIN Head(top_pairs)
         THEN [value |-> <<>>, error |-> TRUE]
         ELSE LET rest == AppendRecords(Tail(top_pairs))
              IN  [value |-> <<TickerRecord(Head(top_pairs).symbol, Head(top_pairs))>>
                             \o rest.value,
                   error |-> rest.error]

get_top_pairs(limit, response) ==
    IF response.raises
    THEN [value |-> <<>>, error |-> TRUE]
    ELSE IF \E i \in 1..Len(response.items) : FilterItem(response.items[i]) = "raise"
         THEN [value |-> <<>>, error |-> TRUE]
         ELSE AppendRecords(SliceTo(SortByVolume(SelectKept(response.items)), limit))

(***************************************************************************)
(* collect_all_exchanges.                                                  *)
(***************************************************************************)
\* BuildTasks without the test of line 136: a task for every configured name
RECURSIVE BuildTasksForEveryName(_, _, _)
BuildTasksForEveryName(names, initialised, syms) ==
    IF names = <<>> THEN <<>>
    ELSE (IF syms # <<>>
          THEN [i \in 1..Len(syms) |->
                   [exchange_name |-> Head(names), symbol |-> syms[i],
                    is_ticker |-> TRUE]]
          ELSE << [exchange_name |-> Head(names), symbol |-> "",
                   is_ticker |-> FALSE] >>)
         \o BuildTasksForEveryName(Tail(names), initialised, syms)

\* lines 134-145: the tasks, in creation order
RECURSIVE BuildTasks(_, _, _)
BuildTasks(names, initialised, syms) ==
    IF names = <<>> THEN <<>>
    ELSE (IF Head(names) \notin initialised THEN <<>>
          ELSE IF syms # <<>>
               THEN [i \in 1..Len(syms) |->
                        [exchange_name |-> Head(names), symbol |-> syms[i],
                         is_ticker |-> TRUE]]
               ELSE << [exchange_name |-> Head(names), symbol |-> "",
                        is_ticker |-> FALSE] >>)
         \o BuildTasks(Tail(names), initialised, syms)

\* what the coroutine of one task returns for the exchange's answer
RunCoroutine(task, limit, response) ==
    IF task.is_ticker
    THEN get_ticker(task.symbol, response)
    ELSE get_top_pairs(limit, response)

HasKey(mapping, key) == \E i \in 1..Len(mapping) : mapping[i].key = key

\* results[exchange_name] = [] when absent, then append / extend
\* (a get_ticker result of None is falsy and appends nothing)
Extend(mapping, exchange_name, tickers) ==
    IF HasKey(mapping, exchange_name)
    THEN [i \in 1..Len(mapping) |->
            IF mapping[i].key = exchange_name
            THEN [key |-> exchange_name, tickers |-> mapping[i].tickers \o tickers]
            ELSE mapping[i]]
    ELSE Append(mapping, [key |-> exchange_name, tickers |-> tickers])

\* lines 154-171: no coroutine lets an exception escape, so no result is an
\* Exception and every task reaches line 161
RECURSIVE ProcessResults(_, _, _)
ProcessResults(tasks, outcomes, mapping) ==
    IF tasks = <<>> THEN mapping
    ELSE ProcessResults(Tail(tasks), Tail(outcomes),
                        Extend(mapping, Head(tasks).exchange_name, Head(outcomes).value))

(***************************************************************************)
(* get_market_pulse.                                                       *)
(***************************************************************************)
Fraction(num, den) == [num |-> num, den |-> den]

\* lines 194-201
NewEntry(symbol) ==
    [symbol |-> symbol, exchanges |-> <<>>, avg_price |-> Fraction(0, 1),
     total_volume_24h |-> 0, avg_change_24h |-> Fraction(0, 1),
     max_change_24h |-> 0]

\* lines 203-208
Observation(exchange_name, ticker) ==
    [exchange |-> exchange_name, price |-> ticker.price,
     volume_24h |-> ticker.volume_24h, change_24h |-> ticker.change_24h]

HasSymbol(smap, symbol) == \E i \in 1..Len(smap) : smap[i].symbol = symbol

\* AddTicker with total_volume_24h assigned instead of accumulated
AddTickerOverwritingTotal(acc, exchange_name, ticker) ==
    IF acc.raised THEN acc
    ELSE LET with == IF HasSymbol(acc.map, ticker.symbol) THEN acc.map
                     ELSE Append(acc.map, NewEntry(ticker.symbol))
         IN  IF IsNone(ticker.volume_24h)
             THEN [raised |-> TRUE, map |-> with]
             ELSE [raised |-> FALSE,
                   map |-> [i \in 1..Len(with) |->
                       IF with[i].symbol = ticker.symbol
                       THEN [with[i] EXCEPT
                               !.exchanges = Append(@, Observation(exchange_name, ticker)),
                               !.total_volume_24h = ticker.volume_24h.n]
                       ELSE with[i]]]

\* lines 192-210 for one ticker; int += None raises TypeError
AddTicker(acc, exchange_name, ticker) ==
    IF acc.raised THEN acc
    ELSE LET with == IF HasSymbol(acc.map, ticker.symbol) THEN acc.map
                     ELSE Append(acc.map, NewEntry(ticker.symbol))
             appended == [i \in 1..Len(with) |->
                 IF with[i].symbol = ticker.symbol
                 THEN [with[i] EXCEPT !.exchanges =
                          Append(@, Observation(exchange_name, ticker))]
                 ELSE with[i]]
         IN  IF IsNone(ticker.volume_24h)
             THEN [raised |-> TRUE, map |-> appended]
             ELSE [raised |-> FALSE,
                   map |-> [i \in 1..Len(appended) |->
                       IF appended[i].symbol = ticker.symbol
                       THEN [appended[i] EXCEPT !.total_volume_24h =
                                @ + ticker.volume_24h.n]
                       ELSE appended[i]]]

RECURSIVE AddTickers(_, _, _)
AddTickers(acc, exchange_name, tickers) ==
    IF tickers = <<>> THEN acc
    ELSE AddTickers(AddTicker(acc, exchange_name, Head(tickers)),
                    exchange_name, Tail(tickers))

\* lines 188-210: the fold over all_data.items()
RECURSIVE Aggregate(_, _)
Aggregate(acc, all_data) ==
    IF all_data = <<>> THEN acc
    ELSE Aggregate(AddTickers(acc, Head(all_data).key, Head(all_data).tickers),
                   Tail(all_data))

RECURSIVE SumN(_)
SumN(numbers) == IF numbers = <<>> THEN 0 ELSE Head(numbers).n + SumN(Tail(numbers))

\* max(changes) of a non-empty list of numbers
RECURSIVE MaxN(_)
MaxN(numbers) ==
    IF Len(numbers) = 1 THEN numbers[1].n
    ELSE LET m == MaxN(Tail(numbers))
         IN  IF m > Head(numbers).n THEN m ELSE Head(numbers).n

Prices(data) == [i \in 1..Len(data.exchanges) |-> data.exchanges[i].price]
Changes(data) == [i \in 1..Len(data.exchanges) |-> data.exchanges[i].change_24h]

\* sum() over a list holding None raises TypeError (0 + None)
SumRaises(values) == \E i \in 1..Len(values) : IsNone(values[i])

\* Averaged with the maximum taken over the initial 0 as well
AveragedMaxFromZero(data) ==
    IF data.exchanges # <<>>
    THEN [data EXCEPT
            !.avg_price = Fraction(SumN(Prices(data)), Len(Prices(data))),
            !.avg_change_24h = Fraction(SumN(Changes(data)), Len(Changes(data))),
            !.max_change_24h = IF MaxN(Changes(data)) > 0 THEN MaxN(Changes(data)) ELSE 0]
    ELSE data

\* lines 214-220 for one entry
Averaged(data) ==
    IF data.exchanges # <<>>
    THEN [data EXCEPT
            !.avg_price = Fraction(SumN(Prices(data)), Len(Prices(data))),
            !.avg_change_24h = Fraction(SumN(Changes(data)), Len(Changes(data))),
            !.max_change_24h = MaxN(Changes(data))]
    ELSE data

AveragesRaise(data) ==
    data.exchanges # <<>> /\ (SumRaises(Prices(data)) \/ SumRaises(Changes(data)))

\* lines 213-220
CalcAverages(acc) ==
    IF acc.raised THEN acc
    ELSE IF \E i \in 1..Len(acc.map) : AveragesRaise(acc.map[i])
         THEN [raised |-> TRUE, map |-> acc.map]
         ELSE [raised |-> FALSE, map |-> [i \in 1..Len(acc.map) |-> Averaged(acc.map[i])]]

\* sorted(..., key=total_volume_24h, reverse=True): stable, descending
RECURSIVE InsertByTotal(_, _)
InsertByTotal(sorted, data) ==
    IF sorted = <<>> THEN <<data>>
    ELSE IF Head(sorted).total_volume_24h >= data.total_volume_24h
         THEN <<Head(sorted)>> \o InsertByTotal(Tail(sorted), data)
         ELSE <<data>> \o sorted

RECURSIVE SortByTotal(_)
SortByTotal(entries) ==
    IF entries = <<>> THEN <<>>
    ELSE InsertByTotal(SortByTotal(SubSeq(entries, 1, Len(entries) - 1)),
                       entries[Len(entries)])

\* Rank without the slice
RankUntruncated(smap, limit) == SortByTotal(smap)

\* lines 223-227
Rank(smap, limit) == SliceTo(SortByTotal(smap), limit)

\* PulseOf with an entry seeded for every known symbol before the fold
PulseOfZeroFilled(all_data, limit) ==
    LET seeded == [i \in 1..Len(SymbolsAscending) |-> NewEntry(SymbolsAscending[i])]
        acc == CalcAverages(Aggregate([raised |-> FALSE, map |-> seeded], all_data))
    IN  [raised |-> acc.raised,
         map |-> acc.map,
         list |-> IF acc.raised THEN <<>> ELSE Rank(acc.map, limit)]

\* PulseOf raising when no exchange delivered a ticker
PulseOfFailingOnEmpty(all_data, limit) ==
    LET acc == CalcAverages(Aggregate([raised |-> FALSE, map |-> <<>>], all_data))
        empty == acc.map = <<>>
    IN  [raised |-> acc.raised \/ empty,
         map |-> acc.map,
         list |-> IF acc.raised \/ empty THEN <<>> ELSE Rank(acc.map, limit)]

\* lines 188-227 on the mapping collect_all_exchanges returned
PulseOf(all_data, limit) ==
    LET acc == CalcAverages(Aggregate([raised |-> FALSE, map |-> <<>>], all_data))
    IN  [raised |-> acc.raised,
         map |-> acc.map,
         list |-> IF acc.raised THEN <<>> ELSE Rank(acc.map, limit)]

(***************************************************************************)
(* The state machine: one collector, one call at a time.                   *)
(***************************************************************************)
\* the first two exchanges of the default EXCHANGES list
ConfiguredExchanges == <<"binance", "okx">>

\* symbol lists a caller of collect_all_exchanges passes
SymbolLists == { <<"BTC/USDT">>, <<"ETH/USDT", "BTC/USDT">> }

\* default of the parameter top_pairs_limit
DefaultTopPairsLimit == 50

\* __init__: every configured exchange is a ccxt class and is instantiated
Init ==
    /\ exchange_names = ConfiguredExchanges
    /\ exchanges = Range(ConfiguredExchanges)
    /\ pc = "idle"
    /\ mode = "none"
    /\ top_pairs_limit = DefaultTopPairsLimit
    /\ symbols = <<>>
    /\ tasks_with_info = <<>>
    /\ fetched = <<>>
    /\ task_results = <<>>
    /\ results = <<>>
    /\ symbol_map = <<>>
    /\ pulse = <<>>
    /\ outcome = "none"
    /\ in_flight = FALSE
    /\ hung = FALSE
    /\ timed_out = FALSE
    /\ saved = <<>>
    /\ repeated = FALSE

\* BeginPulse with the mapping of the call before left in place
BeginPulseKeepingResults(limit) ==
    /\ pc' = "gather"
    /\ mode' = "pulse"
    /\ top_pairs_limit' = limit
    /\ symbols' = <<>>
    /\ tasks_with_info' = BuildTasks(exchange_names, exchanges, <<>>)
    /\ fetched' = <<>>
    /\ task_results' = <<>>
    /\ symbol_map' = <<>>
    /\ pulse' = <<>>
    /\ outcome' = "none"
    /\ UNCHANGED <<exchange_names, exchanges, results, network, saved>>

\* get_market_pulse(top_pairs_limit=limit) up to the await of gather: the
\* locals of the call start empty (lines 131, 134), self is only read
BeginPulse(limit) ==
    /\ pc' = "gather"
    /\ mode' = "pulse"
    /\ top_pairs_limit' = limit
    /\ symbols' = <<>>
    /\ tasks_with_info' = BuildTasks(exchange_names, exchanges, <<>>)
    /\ fetched' = <<>>
    /\ task_results' = <<>>
    /\ results' = <<>>
    /\ symbol_map' = <<>>
    /\ pulse' = <<>>
    /\ outcome' = "none"
    /\ UNCHANGED <<exchange_names, exchanges, network, saved>>

\* collect_all_exchanges(symbols=syms) up to the await of gather
BeginCollect(syms) ==
    /\ pc' = "gather"
    /\ mode' = "collect"
    /\ top_pairs_limit' = DefaultTopPairsLimit
    /\ symbols' = syms
    /\ tasks_with_info' = BuildTasks(exchange_names, exchanges, syms)
    /\ fetched' = <<>>
    /\ task_results' = <<>>
    /\ results' = <<>>
    /\ symbol_map' = <<>>
    /\ pulse' = <<>>
    /\ outcome' = "none"
    /\ UNCHANGED <<exchange_names, exchanges, network, saved>>

\* the first call of get_market_pulse on the collector
CallGetMarketPulse ==
    \E limit \in 1..MaxLimit :
        /\ pc = "idle"
        /\ BeginPulse(limit)
        /\ UNCHANGED repeated

\* the first call of collect_all_exchanges on the collector
CallCollectAllExchanges ==
    \E syms \in SymbolLists :
        /\ pc = "idle"
        /\ BeginCollect(syms)
        /\ UNCHANGED repeated

\* what the exchange of a task may answer
ResponsesFor(task) ==
    IF task.is_ticker THEN TickerResponses(task.symbol) ELSE TickersResponses

\* RunTask calling the exchange again after a call that raised
RunTaskRetrying ==
    /\ pc = "gather"
    /\ Len(task_results) < Len(tasks_with_info)
    /\ LET task == tasks_with_info[Len(task_results) + 1]
       IN  \E response \in ResponsesFor(task) :
               /\ fetched' = Append(fetched, response)
               /\ task_results' =
                      IF response.raises /\ Len(fetched) = Len(task_results)
                      THEN task_results
                      ELSE Append(task_results,
                                  RunCoroutine(task, top_pairs_limit, response))
    /\ UNCHANGED <<exchange_names, exchanges, pc, mode, top_pairs_limit, symbols,
                   tasks_with_info, results, symbol_map, pulse, outcome,
                   network, saved, repeated>>

\* gather runs the coroutines in creation order; none of them awaits, so each
\* runs to its return before the next one starts
RunTask ==
    /\ pc = "gather"
    /\ Len(task_results) < Len(tasks_with_info)
    /\ LET task == tasks_with_info[Len(task_results) + 1]
       IN  \E response \in ResponsesFor(task) :
               /\ fetched' = Append(fetched, response)
               /\ task_results' =
                      Append(task_results, RunCoroutine(task, top_pairs_limit, response))
    /\ UNCHANGED <<exchange_names, exchanges, pc, mode, top_pairs_limit, symbols,
                   tasks_with_info, results, symbol_map, pulse, outcome,
                   network, saved, repeated>>

\* collect_all_exchanges, lines 153-173; a direct caller gets the mapping
ReturnCollected ==
    /\ pc = "gather"
    /\ Len(task_results) = Len(tasks_with_info)
    /\ results' = ProcessResults(tasks_with_info, task_results, results)
    /\ pc' = IF mode = "pulse" THEN "collected" ELSE "done"
    /\ outcome' = IF mode = "pulse" THEN outcome ELSE "returned"
    /\ UNCHANGED <<exchange_names, exchanges, mode, top_pairs_limit, symbols,
                   tasks_with_info, fetched, task_results, symbol_map, pulse,
                   network, saved, repeated>>

\* get_market_pulse, lines 187-227: returns the list or raises TypeError
FinishPulse ==
    /\ pc = "collected"
    /\ LET p == PulseOf(results, top_pairs_limit)
       IN  /\ symbol_map' = p.map
           /\ pulse' = p.list
           /\ outcome' = IF p.raised THEN "raised" ELSE "returned"
    /\ pc' = "done"
    /\ UNCHANGED <<exchange_names, exchanges, mode, top_pairs_limit, symbols,
                   tasks_with_info, fetched, task_results, results,
                   network, saved, repeated>>

Next ==
    \/ CallGetMarketPulse
    \/ CallCollectAllExchanges
    \/ RunTask
    \/ ReturnCollected
    \/ FinishPulse

Spec == Init /\ [][Next]_vars

(***************************************************************************)
(* Vocabulary of the properties.                                           *)
(***************************************************************************)
PulseDone == pc = "done" /\ mode = "pulse"
PulseReturned == PulseDone /\ outcome = "returned"

\* the fetch of task i failed: its fetch_tickers() / fetch_ticker() call raised
AdapterRaised(i) == fetched[i].raises
NonFailing(i) == ~AdapterRaised(i)

RECURSIVE Flatten(_)
Flatten(mapping) ==
    IF mapping = <<>> THEN <<>>
    ELSE Head(mapping).tickers \o Flatten(Tail(mapping))

WithSymbol(tickers, symbol) == SelectSeq(tickers, LAMBDA t : t.symbol = symbol)

ObservationsOfTask(i, symbol) ==
    LET own == WithSymbol(task_results[i].value, symbol)
    IN  [k \in 1..Len(own) |-> Observation(tasks_with_info[i].exchange_name, own[k])]

\* the observations of a symbol that the non-failing tasks returned
RECURSIVE ExpectedObservations(_, _)
ExpectedObservations(i, symbol) ==
    IF i > Len(task_results) THEN <<>>
    ELSE (IF NonFailing(i) THEN ObservationsOfTask(i, symbol) ELSE <<>>)
         \o ExpectedObservations(i + 1, symbol)

SymbolRank(symbol) ==
    CHOOSE i \in 1..Len(SymbolsAscending) : SymbolsAscending[i] = symbol

Reverse(seq) == [i \in 1..Len(seq) |-> seq[Len(seq) + 1 - i]]

\* the fields of the aggregated records that a consumer compares
Core(list) ==
    [i \in 1..Len(list) |->
        [symbol |-> list[i].symbol, avg_price |-> list[i].avg_price,
         total_volume_24h |-> list[i].total_volume_24h,
         avg_change_24h |-> list[i].avg_change_24h,
         max_change_24h |-> list[i].max_change_24h]]

Min(a, b) == IF a < b THEN a ELSE b

(***************************************************************************)
(* C1. Bulkhead isolation: when a pulse cycle is over it has returned, and  *)
(* every symbol returned by a non-failing fetch is in the aggregation with  *)
(* exactly the observations of the non-failing fetches.                     *)
(***************************************************************************)
C1_BulkheadIsolation ==
    PulseDone =>
        /\ outcome = "returned"
        /\ \A i \in 1..Len(task_results) :
               NonFailing(i) =>
                   \A k \in 1..Len(task_results[i].value) :
                       LET symbol == task_results[i].value[k].symbol
                       IN  \E j \in 1..Len(symbol_map) :
                               /\ symbol_map[j].symbol = symbol
                               /\ symbol_map[j].exchanges = ExpectedObservations(1, symbol)

(***************************************************************************)
(* C2. When the adapter call of every task of a cycle raised, the mapping   *)
(* of collect_all_exchanges holds no ticker, get_market_pulse returns the   *)
(* empty list, and the call returns instead of raising.                     *)
(***************************************************************************)
AllAdaptersRaised ==
    /\ pc = "done"
    /\ tasks_with_info # <<>>
    /\ \A i \in 1..Len(fetched) : AdapterRaised(i)

C2_AllFailReturnsEmpty ==
    AllAdaptersRaised =>
        /\ outcome = "returned"
        /\ \A i \in 1..Len(results) : results[i].tickers = <<>>
        /\ mode = "pulse" => pulse = <<>>

C2_Witness ==
    /\ AllAdaptersRaised
    /\ mode = "pulse"
    /\ Len(fetched) = 2
    /\ outcome = "returned"
    /\ pulse = <<>>

(***************************************************************************)
(* C3. No answer of an exchange makes a call raise: a finished call has     *)
(* returned its result.                                                     *)
(***************************************************************************)
C3_NeverRaises == pc = "done" => outcome = "returned"

(***************************************************************************)
(* C4. Every ticker record produced by get_ticker or get_top_pairs has      *)
(* numeric price, volume_24h, change_24h, high_24h and low_24h, and a       *)
(* volume_24h that is not negative.                                         *)
(***************************************************************************)
NumericRecord(r) ==
    /\ ~IsNone(r.price)
    /\ ~IsNone(r.volume_24h)
    /\ ~IsNone(r.change_24h)
    /\ ~IsNone(r.high_24h)
    /\ ~IsNone(r.low_24h)
    /\ r.volume_24h.n >= 0

C4_RecordsNumeric ==
    \A i \in 1..Len(task_results) :
        \A k \in 1..Len(task_results[i].value) :
            NumericRecord(task_results[i].value[k])

(***************************************************************************)
(* C5. Every aggregated record, in the symbol map and in the returned       *)
(* list, has at least one observation.                                      *)
(***************************************************************************)
C5_NoEmptyBucket ==
    /\ \A j \in 1..Len(symbol_map) : symbol_map[j].exchanges # <<>>
    /\ \A j \in 1..Len(pulse) : pulse[j].exchanges # <<>>

C5_Witness ==
    /\ PulseReturned
    /\ \E j \in 1..Len(pulse) : Len(pulse[j].exchanges) = 2
    /\ \E i \in 1..Len(fetched) :
           \E k \in 1..Len(fetched[i].items) : fetched[i].items[k].key = "ETH/BTC"

(***************************************************************************)
(* C6. The total volume of every returned record is the sum of the volumes  *)
(* of its observations.                                                     *)
(***************************************************************************)
RECURSIVE SumOfVolumes(_)
SumOfVolumes(observations) ==
    IF observations = <<>> THEN 0
    ELSE Head(observations).volume_24h.n + SumOfVolumes(Tail(observations))

C6_TotalIsSum ==
    PulseReturned =>
        \A j \in 1..Len(pulse) :
            pulse[j].total_volume_24h = SumOfVolumes(pulse[j].exchanges)

C6_Witness ==
    /\ PulseReturned
    /\ \E j \in 1..Len(pulse) :
           /\ Len(pulse[j].exchanges) = 2
           /\ pulse[j].exchanges[1].volume_24h = Num(100)
           /\ pulse[j].exchanges[2].volume_24h = Num(300)
           /\ pulse[j].total_volume_24h = 400

(***************************************************************************)
(* C7. In every returned record the average price and the average change    *)
(* are the arithmetic means, and the maximum change is the maximum, of the  *)
(* tickers that the exchanges returned for the symbol, and of those only.   *)
(***************************************************************************)
RECURSIVE SumOfField(_, _)
SumOfField(tickers, field) ==
    IF tickers = <<>> THEN 0
    ELSE Head(tickers)[field].n + SumOfField(Tail(tickers), field)

\* fraction = total / count
IsQuotient(fraction, total, count) ==
    /\ fraction.den # 0
    /\ fraction.num * count = total * fraction.den

C7_MeansAndMax ==
    PulseReturned =>
        \A j \in 1..Len(pulse) :
            LET reported == WithSymbol(Flatten(results), pulse[j].symbol)
                count == Len(reported)
            IN  /\ count >= 1
                /\ IsQuotient(pulse[j].avg_price, SumOfField(reported, "price"), count)
                /\ IsQuotient(pulse[j].avg_change_24h,
                              SumOfField(reported, "change_24h"), count)
                /\ \A k \in 1..count :
                       reported[k].change_24h.n <= pulse[j].max_change_24h
                /\ \E k \in 1..count :
                       reported[k].change_24h.n = pulse[j].max_change_24h

\* two exchanges report one symbol, both with a negative change
C7_Witness ==
    /\ PulseReturned
    /\ \E j \in 1..Len(pulse) :
           /\ Len(pulse[j].exchanges) = 2
           /\ pulse[j].exchanges[1].change_24h = Num(-1)
           /\ pulse[j].exchanges[2].change_24h = Num(-3)
           /\ pulse[j].max_change_24h = -1
           /\ pulse[j].avg_change_24h = Fraction(-4, 2)
           /\ pulse[j].avg_price = Fraction(10, 2)

(***************************************************************************)
(* C8. Order invariance: the outcome of get_market_pulse and the fields     *)
(* and ranking of its records are the same when the exchange -> tickers     *)
(* mapping is built and iterated in the opposite order.                     *)
(***************************************************************************)
C8_OrderInvariant ==
    PulseDone =>
        LET other == PulseOf(ProcessResults(Reverse(tasks_with_info),
                                            Reverse(task_results), <<>>),
                             top_pairs_limit)
        IN  /\ other.raised = (outcome = "raised")
            /\ Core(other.list) = Core(pulse)

(***************************************************************************)
(* C9. The returned list is in descending order of total volume, and        *)
(* records of equal total volume are in ascending order of symbol.          *)
(***************************************************************************)
C9_RankedWithTieBreak ==
    PulseReturned =>
        \A i, j \in 1..Len(pulse) :
            i < j =>
                /\ pulse[i].total_volume_24h >= pulse[j].total_volume_24h
                /\ pulse[i].total_volume_24h = pulse[j].total_volume_24h
                       => SymbolRank(pulse[i].symbol) < SymbolRank(pulse[j].symbol)

(***************************************************************************)
(* C10. For a limit N >= 1 the returned list holds min(N, number of         *)
(* distinct symbols collected) records of the aggregation, and no record    *)
(* left out has a larger total volume than a record returned.               *)
(***************************************************************************)
CollectedSymbols == {t.symbol : t \in Range(Flatten(results))}

C10_TopN ==
    (PulseReturned /\ top_pairs_limit >= 1) =>
        /\ Len(pulse) = Min(top_pairs_limit, Cardinality(CollectedSymbols))
        /\ \A i \in 1..Len(pulse) : \E j \in 1..Len(symbol_map) : symbol_map[j] = pulse[i]
        /\ \A i, j \in 1..Len(pulse) : i # j => pulse[i].symbol # pulse[j].symbol
        /\ \A j \in 1..Len(symbol_map) :
               (\A i \in 1..Len(pulse) : pulse[i] # symbol_map[j]) =>
                   \A i \in 1..Len(pulse) :
                       pulse[i].total_volume_24h >= symbol_map[j].total_volume_24h

\* two symbols of different volume were collected and one record is returned
C10_Witness ==
    /\ PulseReturned
    /\ top_pairs_limit = 1
    /\ Cardinality(CollectedSymbols) = 2
    /\ Len(pulse) = 1
    /\ \E j \in 1..Len(symbol_map) :
           symbol_map[j].total_volume_24h < pulse[1].total_volume_24h

(***************************************************************************)
(* C17. get_top_pairs filters before it ranks: every returned ticker is a   *)
(* USDT pair of positive volume, the list is in descending order of volume, *)
(* no qualifying pair left out has a larger volume than a returned one, and *)
(* the list holds min(limit, number of qualifying pairs) tickers.           *)
(***************************************************************************)
Qualifies(item) ==
    /\ ContainsUsdt(item.key)
    /\ ~IsNone(Get(item.ticker, "quoteVolume"))
    /\ Get(item.ticker, "quoteVolume").n > 0

QualifyingItems(i) ==
    {k \in 1..Len(fetched[i].items) : Qualifies(fetched[i].items[k])}

TopPairsTasks ==
    {i \in 1..Len(task_results) : ~tasks_with_info[i].is_ticker}

\* what C17 says of the list apart from its length
FilteredAndRanked(i) ==
    LET value == task_results[i].value
    IN  /\ \A k \in 1..Len(value) :
               /\ ContainsUsdt(value[k].symbol)
               /\ ~IsNone(value[k].volume_24h)
               /\ value[k].volume_24h.n > 0
        /\ \A k, l \in 1..Len(value) :
               k < l => value[k].volume_24h.n >= value[l].volume_24h.n
        /\ \A q \in QualifyingItems(i) :
               (\A k \in 1..Len(value) : value[k].symbol # fetched[i].items[q].key) =>
                   \A k \in 1..Len(value) :
                       value[k].volume_24h.n >= QuoteVolume(fetched[i].items[q].ticker)

TasksFor(exchange_name, symbol, is_ticker) ==
    {i \in 1..Len(tasks_with_info) :
        tasks_with_info[i] = [exchange_name |-> exchange_name, symbol |-> symbol,
                              is_ticker |-> is_ticker]}

OneTaskPerUnit ==
    IF symbols # <<>>
    THEN /\ \A e \in exchanges : \A s \in Range(symbols) :
                Cardinality(TasksFor(e, s, TRUE)) = 1
         /\ Len(tasks_with_info) = Cardinality(exchanges) * Cardinality(Range(symbols))
    ELSE /\ \A e \in exchanges : Cardinality(TasksFor(e, "", FALSE)) = 1
         /\ Len(tasks_with_info) = Cardinality(exchanges)

\* the tickers returned by the tasks of one exchange, in task order
RECURSIVE ReturnedBy(_, _)
ReturnedBy(exchange_name, i) ==
    IF i > Len(task_results) THEN <<>>
    ELSE (IF tasks_with_info[i].exchange_name = exchange_name
          THEN task_results[i].value ELSE <<>>)
         \o ReturnedBy(exchange_name, i + 1)

MappingIsOwnTickers ==
    /\ \A i, j \in 1..Len(results) : i # j => results[i].key # results[j].key
    /\ \A i \in 1..Len(results) :
           /\ results[i].key \in exchanges
           /\ results[i].tickers = ReturnedBy(results[i].key, 1)
    /\ \A e \in exchanges :
           ReturnedBy(e, 1) # <<>> => \E i \in 1..Len(results) : results[i].key = e

C18_TasksAndMapping ==
    /\ pc # "idle" => OneTaskPerUnit
    /\ \A i \in 1..Len(task_results) : AdapterRaised(i) => task_results[i].value = <<>>
    /\ pc \in {"collected", "done"} => MappingIsOwnTickers

(***************************************************************************)
(* C19. No retries: every task makes at most one call to its exchange, and  *)
(* a task whose call raised makes no further call.  fetched holds one       *)
(* answer per call made in the cycle.                                       *)
(***************************************************************************)
C19_NoRetries ==
    /\ Len(fetched) <= Len(tasks_with_info)
    /\ Len(fetched) = Len(task_results)

C19_Witness ==
    /\ pc = "done"
    /\ Len(tasks_with_info) = 2
    /\ AdapterRaised(1)
    /\ Len(fetched) = 2

(***************************************************************************)
(* Other configurations and limits: the collector is built from any of a    *)
(* few exchange lists, and get_market_pulse is called with limits that are  *)
(* not positive as well.                                                    *)
(***************************************************************************)
\* names for which getattr(ccxt, exchange_name) yields an exchange class
CcxtExchanges == {"binance", "okx"}

\* values of the EXCHANGES setting
ExchangeLists ==
    { <<>>, <<"binance">>, <<"binance", "binance">>, ConfiguredExchanges }

\* values of top_pairs_limit
AnyLimits == {-1, 0, 1}

\* __init__(exchanges): the names are stored as given, and an instance is
\* kept for every name that ccxt knows
InitConfig ==
    /\ exchange_names \in ExchangeLists
    /\ exchanges = {name \in Range(exchange_names) : name \in CcxtExchanges}
    /\ pc = "idle"
    /\ mode = "none"
    /\ top_pairs_limit = DefaultTopPairsLimit
    /\ symbols = <<>>
    /\ tasks_with_info = <<>>
    /\ fetched = <<>>
    /\ task_results = <<>>
    /\ results = <<>>
    /\ symbol_map = <<>>
    /\ pulse = <<>>
    /\ outcome = "none"
    /\ in_flight = FALSE
    /\ hung = FALSE
    /\ timed_out = FALSE
    /\ saved = <<>>
    /\ repeated = FALSE

\* get_market_pulse(top_pairs_limit=limit): the limit is not validated
CallGetMarketPulseAnyLimit ==
    \E limit \in AnyLimits :
        /\ pc = "idle"
        /\ BeginPulse(limit)
        /\ UNCHANGED repeated

NextConfig ==
    \/ CallGetMarketPulseAnyLimit
    \/ RunTask
    \/ ReturnCollected
    \/ FinishPulse

SpecConfig == InitConfig /\ [][NextConfig]_vars

(***************************************************************************)
(* C11. get_market_pulse with a limit N <= 0 fails with a configuration     *)
(* error: it never returns a list.                                          *)
(***************************************************************************)
C11_InvalidLimitFails ==
    (PulseDone /\ top_pairs_limit <= 0) => outcome # "returned"

(***************************************************************************)
(* C12. A collector configured with an empty exchange list fails with a     *)
(* configuration error: a call on it never returns an (empty) collection.   *)
(***************************************************************************)
C12_EmptyExchangeListFails ==
    (pc = "done" /\ exchange_names = <<>>) => outcome # "returned"

(***************************************************************************)
(* C16. In every returned record the observations come from pairwise        *)
(* different exchanges, whatever the configured exchange list.              *)
(***************************************************************************)
C16_OneObservationPerExchange ==
    PulseReturned =>
        \A j \in 1..Len(pulse) :
            \A a, b \in 1..Len(pulse[j].exchanges) :
                a # b => pulse[j].exchanges[a].exchange # pulse[j].exchanges[b].exchange

(***************************************************************************)
(* The fetch calls in time.  fetch_ticker and fetch_tickers are calls of    *)
(* the synchronous ccxt client made inside a coroutine that never awaits:   *)
(* while one is in progress the event loop runs nothing else.  A call may   *)
(* never return, and the configured per-cycle timeout may elapse; gather is *)
(* awaited without a timeout.                                               *)
(***************************************************************************)
\* the next coroutine is scheduled and enters its fetch call
StartFetch ==
    /\ pc = "gather"
    /\ ~in_flight
    /\ Len(task_results) < Len(tasks_with_info)
    /\ in_flight' = TRUE
    /\ UNCHANGED <<exchange_names, exchanges, pc, mode, top_pairs_limit, symbols,
                   tasks_with_info, fetched, task_results, results, symbol_map,
                   pulse, outcome, hung, timed_out, saved, repeated>>

\* the fetch call returns or raises, and the coroutine runs to its return
CompleteFetch ==
    /\ pc = "gather"
    /\ in_flight
    /\ ~hung
    /\ LET task == tasks_with_info[Len(task_results) + 1]
       IN  \E response \in ResponsesFor(task) :
               /\ fetched' = Append(fetched, response)
               /\ task_results' =
                      Append(task_results, RunCoroutine(task, top_pairs_limit, response))
    /\ in_flight' = FALSE
    /\ UNCHANGED <<exchange_names, exchanges, pc, mode, top_pairs_limit, symbols,
                   tasks_with_info, results, symbol_map, pulse, outcome,
                   hung, timed_out, saved, repeated>>

\* the exchange never answers the call in progress
FetchHangs ==
    /\ pc = "gather"
    /\ in_flight
    /\ ~hung
    /\ hung' = TRUE
    /\ UNCHANGED <<exchange_names, exchanges, pc, mode, top_pairs_limit, symbols,
                   tasks_with_info, fetched, task_results, results, symbol_map,
                   pulse, outcome, in_flight, timed_out, saved, repeated>>

\* the per-cycle timeout elapses while gather is awaited; no code reads it
TimeoutElapses ==
    /\ pc = "gather"
    /\ ~timed_out
    /\ timed_out' = TRUE
    /\ UNCHANGED <<exchange_names, exchanges, pc, mode, top_pairs_limit, symbols,
                   tasks_with_info, fetched, task_results, results, symbol_map,
                   pulse, outcome, in_flight, hung, saved, repeated>>

NextTiming ==
    \/ CallGetMarketPulse
    \/ StartFetch
    \/ CompleteFetch
    \/ FetchHangs
    \/ TimeoutElapses
    \/ ReturnCollected
    \/ FinishPulse

SpecTiming == Init /\ [][NextTiming]_vars

(***************************************************************************)
(* C13. No fetch task waits on another: while the fetch of one exchange is  *)
(* in progress and another task has not started, that task can start.       *)
(***************************************************************************)
C13_TasksDoNotWait ==
    (pc = "gather" /\ in_flight /\ Len(task_results) + 1 < Len(tasks_with_info))
        => ENABLED StartFetch

(***************************************************************************)
(* C14. Once the per-cycle timeout has elapsed while fetches are pending,   *)
(* the cycle can return with the results of the tasks that completed, also  *)
(* when an exchange never answers.                                          *)
(***************************************************************************)
C14_TimeoutEndsCycle ==
    (pc = "gather" /\ timed_out) => ENABLED ReturnCollected

(***************************************************************************)
(* The storage writers: collect_and_store (collect_market_data.py, lines    *)
(* 43-60) and the fresh-collection branch of get_pulse_callback            *)
(* (handlers.py, lines 88-103). Both run the same double loop over the      *)
(* list get_market_pulse returned; saved records the arguments of every     *)
(* save_snapshot call in the order the calls are issued.                    *)
(***************************************************************************)
\* the arguments of one save_snapshot call
SnapshotCall(item, exchange_data) ==
    [exchange |-> exchange_data.exchange,
     symbol |-> item.symbol,
     price |-> item.avg_price,
     volume |-> item.total_volume_24h,
     change |-> item.avg_change_24h]

\* the inner loop: for exchange_data in item.get('exchanges', [])
SnapshotCallsOfItem(item) ==
    [k \in 1..Len(item.exchanges) |-> SnapshotCall(item, item.exchanges[k])]

\* the outer loop: for item in pulse_data
RECURSIVE SnapshotCalls(_)
SnapshotCalls(pulse_data) ==
    IF pulse_data = <<>> THEN <<>>
    ELSE SnapshotCallsOfItem(Head(pulse_data)) \o SnapshotCalls(Tail(pulse_data))

\* the writer runs only when get_market_pulse returned; an exception of
\* get_market_pulse propagates out of both writers before the loop
StoreSnapshots ==
    /\ pc = "done"
    /\ mode = "pulse"
    /\ outcome = "returned"
    /\ saved' = saved \o SnapshotCalls(pulse)
    /\ pc' = "stored"
    /\ UNCHANGED <<exchange_names, exchanges, mode, top_pairs_limit, symbols,
                   tasks_with_info, fetched, task_results, results, symbol_map,
                   pulse, outcome, network, repeated>>

NextStore ==
    \/ CallGetMarketPulse
    \/ RunTask
    \/ ReturnCollected
    \/ FinishPulse
    \/ StoreSnapshots

SpecStore == Init /\ [][NextStore]_vars

\* the observations of a returned list, in the order of the two loops, each
\* with the symbol of its aggregation
RECURSIVE ObservationsOf(_)
ObservationsOf(pulse_data) ==
    IF pulse_data = <<>> THEN <<>>
    ELSE [k \in 1..Len(Head(pulse_data).exchanges) |->
              [symbol |-> Head(pulse_data).symbol,
               observation |-> Head(pulse_data).exchanges[k]]]
         \o ObservationsOf(Tail(pulse_data))

(***************************************************************************)
(* C15. After the writer has run, there is exactly one save_snapshot call   *)
(* per contributing exchange observation of the returned list, and the      *)
(* call of an observation carries that observation's own exchange, symbol,  *)
(* price, volume and change.                                                *)
(***************************************************************************)
C15_RowPerObservation ==
    pc = "stored" =>
        LET observed == ObservationsOf(pulse)
        IN  /\ Len(saved) = Len(observed)
            /\ \A k \in 1..Len(observed) :
                   LET o == observed[k].observation
                   IN  /\ saved[k].exchange = o.exchange
                       /\ saved[k].symbol = observed[k].symbol
                       /\ IsQuotient(saved[k].price, o.price.n, 1)
                       /\ saved[k].volume = o.volume_24h.n
                       /\ IsQuotient(saved[k].change, o.change_24h.n, 1)

(***************************************************************************)
(* Several cycles on one collector: the scheduler and the bot call          *)
(* get_market_pulse / collect_all_exchanges again on the same object after  *)
(* a call has returned or raised. Every later call starts as the first one  *)
(* does: results (line 131), tasks (line 134) and symbol_map (line 185) are *)
(* locals of the call.                                                      *)
(***************************************************************************)
CallGetMarketPulseAgain ==
    \E limit \in 1..MaxLimit :
        /\ pc = "done"
        /\ BeginPulse(limit)
        /\ repeated' = TRUE

CallCollectAllExchangesAgain ==
    \E syms \in SymbolLists :
        /\ pc = "done"
        /\ BeginCollect(syms)
        /\ repeated' = TRUE

NextCycles ==
    \/ CallGetMarketPulse
    \/ CallCollectAllExchanges
    \/ RunTask
    \/ ReturnCollected
    \/ FinishPulse
    \/ CallGetMarketPulseAgain
    \/ CallCollectAllExchangesAgain

SpecCycles == Init /\ [][NextCycles]_vars

\* what the tasks of this cycle return for the answers fetched in this cycle
OutcomesOfThisCycle ==
    [i \in 1..Len(fetched) |->
        RunCoroutine(tasks_with_info[i], top_pairs_limit, fetched[i])]

\* the mapping and the pulse computed from this cycle's answers alone
MappingOfThisCycle == ProcessResults(tasks_with_info, OutcomesOfThisCycle, <<>>)
PulseOfThisCycle == PulseOf(MappingOfThisCycle, top_pairs_limit)

\* a finished call gave what this cycle's answers alone determine
ResultFromThisCycleOnly ==
    pc = "done" =>
        /\ Len(fetched) = Len(tasks_with_info)
        /\ results = MappingOfThisCycle
        /\ mode = "pulse" =>
               /\ pulse = PulseOfThisCycle.list
               /\ (outcome = "raised") = PulseOfThisCycle.raised

\* a call that has fetched nothing yet holds no ticker and no aggregate
NothingRetained ==
    (pc = "gather" /\ fetched = <<>>) =>
        /\ task_results = <<>>
        /\ results = <<>>
        /\ symbol_map = <<>>
        /\ pulse = <<>>

\* the collector holds the configuration __init__ gave it
ConfigurationKept ==
    /\ exchange_names = ConfiguredExchanges
    /\ exchanges = Range(ConfiguredExchanges)

(***************************************************************************)
(* C20. No cross-cycle state: in every state of every call, the first or a  *)
(* later one, exchange_names and exchanges are what __init__ set, a call    *)
(* starts with no ticker and no aggregate of an earlier   *)
(* call, and what a call returns is determined by the answers fetched in    *)
(* that call alone, whatever earlier calls on the collector returned or     *)
(* raised.                                                                  *)
(***************************************************************************)
C20_NoCrossCycleState ==
    /\ ConfigurationKept
    /\ NothingRetained
    /\ ResultFromThisCycleOnly

\* a later call on the same collector has returned a non-empty list
C20_Witness ==
    /\ repeated
    /\ PulseReturned
    /\ pulse # <<>>

(***************************************************************************)
(* Adapters that fail to initialise.  __init__ (lines 24-39) wraps the      *)
(* lookup getattr(ccxt, name) and the constructor call of every name in one *)
(* try: a name ccxt does not know, or whose constructor raises, is logged   *)
(* and left out of self.exchanges, while self.exchange_names keeps it.      *)
(***************************************************************************)
\* a name that is no attribute of the ccxt module
UnknownExchange == "nosuch"

\* values of the exchanges argument of __init__
ListsWithUnknown == { <<UnknownExchange, "binance">>, ConfiguredExchanges }

\* __init__(exchanges): any set of the names ccxt knows may have constructed
InitSkipping ==
    /\ exchange_names \in ListsWithUnknown
    /\ exchanges \in SUBSET (Range(exchange_names) \cap CcxtExchanges)
    /\ pc = "idle"
    /\ mode = "none"
    /\ top_pairs_limit = DefaultTopPairsLimit
    /\ symbols = <<>>
    /\ tasks_with_info = <<>>
    /\ fetched = <<>>
    /\ task_results = <<>>
    /\ results = <<>>
    /\ symbol_map = <<>>
    /\ pulse = <<>>
    /\ outcome = "none"
    /\ in_flight = FALSE
    /\ hung = FALSE
    /\ timed_out = FALSE
    /\ saved = <<>>
    /\ repeated = FALSE

\* a direct call of one coroutine: tasks_with_info holds the call's arguments,
\* fetched the answers of the network calls it made, task_results its return
\* value.  Lines 52-53 / 83-84 return before the adapter is looked up.
DirectCall(task, mode_name) ==
    /\ pc = "idle"
    /\ pc' = "done"
    /\ mode' = mode_name
    /\ tasks_with_info' = <<task>>
    /\ IF task.exchange_name \notin exchanges
       THEN /\ fetched' = <<>>
            /\ task_results' = << [value |-> <<>>, error |-> FALSE] >>
       ELSE \E response \in ResponsesFor(task) :
                /\ fetched' = <<response>>
                /\ task_results' = << RunCoroutine(task, top_pairs_limit', response) >>
    /\ outcome' = "returned"
    /\ UNCHANGED <<exchange_names, exchanges, symbols, results, symbol_map, pulse,
                   network, saved, repeated>>

\* await collector.get_ticker(exchange_name, symbol)
CallGetTicker ==
    \E name \in Range(exchange_names), symbol \in Range(SymbolsAscending) :
        /\ DirectCall([exchange_name |-> name, symbol |-> symbol, is_ticker |-> TRUE],
                      "get_ticker")
        /\ UNCHANGED top_pairs_limit

\* await collector.get_top_pairs(exchange_name, limit)
CallGetTopPairs ==
    \E name \in Range(exchange_names), limit \in 1..MaxLimit :
        /\ top_pairs_limit' = limit
        /\ DirectCall([exchange_name |-> name, symbol |-> "", is_ticker |-> FALSE],
                      "get_top_pairs")

NextSkipping ==
    \/ CallGetMarketPulse
    \/ CallCollectAllExchanges
    \/ CallGetTicker
    \/ CallGetTopPairs
    \/ RunTask
    \/ ReturnCollected
    \/ FinishPulse

SpecSkipping == InitSkipping /\ [][NextSkipping]_vars

\* the configured names whose adapter failed to initialise
FailedToInitialise == Range(exchange_names) \ exchanges

KeysOf(mapping) == {mapping[i].key : i \in 1..Len(mapping)}

InCycle == mode \in {"pulse", "collect"}
DirectlyCalled == mode \in {"get_ticker", "get_top_pairs"}

(***************************************************************************)
(* C21. An exchange whose adapter failed to initialise is skipped: the      *)
(* collector exists with the name still configured, no task of a cycle      *)
(* names it and no network call is made for it, a direct get_ticker /       *)
(* get_top_pairs for it returns None / [] with no network call, and the     *)
(* mapping a cycle returns has as keys exactly the initialised configured   *)
(* exchanges, also those whose tasks returned nothing.                      *)
(***************************************************************************)
C21_UninitialisedSkipped ==
    /\ InCycle =>
           /\ \A i \in 1..Len(tasks_with_info) :
                  tasks_with_info[i].exchange_name \notin FailedToInitialise
           /\ Len(fetched) <= Len(tasks_with_info)
    /\ (DirectlyCalled /\ tasks_with_info[1].exchange_name \in FailedToInitialise) =>
           /\ fetched = <<>>
           /\ task_results[1].value = <<>>
           /\ outcome = "returned"
    /\ (InCycle /\ pc \in {"collected", "done"}) =>
           KeysOf(results) = Range(exchange_names) \cap exchanges

\* a cycle has returned a mapping for a collector with a skipped exchange
\* and an initialised exchange all of whose tasks returned nothing
C21_Witness ==
    /\ InCycle
    /\ pc = "done"
    /\ FailedToInitialise # {}
    /\ \E i \in 1..Len(results) : results[i].tickers = <<>>

(***************************************************************************)
(* get_pulse_callback (handlers.py, lines 73-135) on the module's one       *)
(* collector, one request after the other.  saved is the snapshot table:    *)
(* the rows written by save_snapshot, oldest first.                         *)
(***************************************************************************)
\* top_pairs_limit of the handler's call
PulseRequestLimit == 20

\* limit of the handler's read
LatestSnapshotsLimit == 20

\* MarketSnapshot.get_latest_snapshots(db, limit): the latest rows, newest
\* first, at most limit of them
get_latest_snapshots(rows, limit) ==
    [k \in 1..Min(limit, Len(rows)) |-> rows[Len(rows) + 1 - k]]

\* the handler can be entered: no request is being handled (the previous one
\* has replied, or ended with the exception of get_market_pulse)
AwaitingRequest ==
    \/ pc \in {"idle", "replied"}
    \/ pc = "done" /\ outcome = "raised"

\* PulseRequest collecting whatever the table holds
PulseRequestAlwaysFresh ==
    /\ AwaitingRequest
    /\ BeginPulse(PulseRequestLimit)
    /\ repeated' = (pc # "idle")

\* lines 73-90 and 120-135: read the table; collect when it is empty, reply
\* from the rows otherwise
PulseRequest ==
    /\ AwaitingRequest
    /\ LET snapshots == get_latest_snapshots(saved, LatestSnapshotsLimit)
       IN  IF snapshots = <<>>
           THEN BeginPulse(PulseRequestLimit)
           ELSE /\ pc' = "replied"
                /\ mode' = "from_db"
                /\ UNCHANGED <<exchange_names, exchanges, top_pairs_limit, symbols,
                               tasks_with_info, fetched, task_results, results,
                               symbol_map, pulse, outcome, network, saved>>
    /\ repeated' = (pc # "idle")

\* lines 93-118: the rows are written, then the reply is sent
StoreAndReply ==
    /\ pc = "done"
    /\ mode = "pulse"
    /\ outcome = "returned"
    /\ saved' = saved \o SnapshotCalls(pulse)
    /\ pc' = "replied"
    /\ UNCHANGED <<exchange_names, exchanges, mode, top_pairs_limit, symbols,
                   tasks_with_info, fetched, task_results, results, symbol_map,
                   pulse, outcome, network, repeated>>

NextBot ==
    \/ PulseRequest
    \/ RunTask
    \/ ReturnCollected
    \/ FinishPulse
    \/ StoreAndReply

SpecBot == Init /\ [][NextBot]_vars

\* a step that invokes get_market_pulse
CycleStarts == pc # "gather" /\ pc' = "gather"

\* a request replied after a collection of its own: one answer per task, and
\* one row per observation of the list it got, for that exchange and symbol
RepliedAfterOneCycle ==
    (pc = "replied" /\ mode = "pulse") =>
        /\ Len(fetched) = Len(tasks_with_info)
        /\ Len(saved) = Len(ObservationsOf(pulse))
        /\ \A k \in 1..Len(saved) :
               /\ saved[k].exchange = ObservationsOf(pulse)[k].observation.exchange
               /\ saved[k].symbol = ObservationsOf(pulse)[k].symbol

(***************************************************************************)
(* C22. A fresh collection only when the table is empty: once a row is      *)
(* stored no step of a later request invokes get_market_pulse or writes a   *)
(* row; a request that finds the table empty invokes get_market_pulse, and  *)
(* when the call has returned it writes one row per contributing            *)
(* observation and replies without a second collection.                     *)
(***************************************************************************)
C22_FreshOnlyWhenEmpty ==
    /\ [][saved # <<>> => (saved' = saved /\ ~CycleStarts)]_vars
    /\ [][(AwaitingRequest /\ saved = <<>>) => (CycleStarts /\ mode' = "pulse")]_vars
    /\ [][(pc = "done" /\ outcome = "returned") => (pc' = "replied")]_vars
    /\ []RepliedAfterOneCycle

\* a later request was answered from the rows an earlier request stored
C22_Witness ==
    /\ repeated
    /\ pc = "replied"
    /\ mode = "from_db"
    /\ saved # <<>>

====
